---- MODULE Spec2Model ----
(***************************************************************************)
(* Model of the GITA chatbot core (src/bot.py): the streaming decoder      *)
(* chatbot_with_memory_json_stream, the non-streaming variant              *)
(* chatbot_with_memory_json and the conversation history they append to.   *)
(* Text is kept as TLA+ strings, positions are 0-based as in Python.       *)
(***************************************************************************)
EXTENDS Integers, Sequences, FiniteSets, TLC

(***************************************************************************)
(* Bounds of the model.                                                    *)
(***************************************************************************)
MaxExchanges == 2
MaxLines == 3
MaxRequests == 3

(***************************************************************************)
(* Python string primitives used by the decoder.                           *)
(***************************************************************************)
MinOf(S) == CHOOSE x \in S : \A y \in S : x <= y

\* s[i] for 0 <= i < len(s), "" outside
CharAt(s, i) == IF i >= 0 /\ i < Len(s) THEN SubSeq(s, i + 1, i + 1) ELSE ""

\* Python's clamping of a slice/search index
PyClamp(s, i) ==
    IF i < 0 THEN (IF i + Len(s) < 0 THEN 0 ELSE i + Len(s))
    ELSE IF i > Len(s) THEN Len(s) ELSE i

\* s[a:b]
PySlice(s, a, b) ==
    LET lo == PyClamp(s, a)
        hi == PyClamp(s, b)
    IN IF hi <= lo THEN "" ELSE SubSeq(s, lo + 1, hi)

\* s.find(sub, start): lowest index >= start where sub occurs, -1 if none
PyFind(s, sub, start) ==
    LET st == IF start < 0 THEN (IF start + Len(s) < 0 THEN 0 ELSE start + Len(s))
              ELSE start
        cands == {j \in st..(Len(s) - Len(sub)) : SubSeq(s, j + 1, j + Len(sub)) = sub}
    IN IF cands = {} THEN 0 - 1 ELSE MinOf(cands)

\* sub in s
PyIn(sub, s) == PyFind(s, sub, 0) > 0 - 1

\* s.startswith(p)
StartsWith(s, p) == Len(s) >= Len(p) /\ SubSeq(s, 1, Len(p)) = p

(***************************************************************************)
(* JSON values.  Each Python type has its own record shape:                *)
(*   str   [t |-> "str",  s |-> string]                                    *)
(*   int   [t |-> "num",  n |-> integer]                                   *)
(*   true / false / None   [t |-> "lit", b |-> name]                       *)
(*   list  [t |-> "list", l |-> sequence of values]                        *)
(*   dict  [t |-> "obj",  k |-> keys in insertion order, o |-> key :> val] *)
(***************************************************************************)
StrV(s) == [t |-> "str", s |-> s]
NumV(n) == [t |-> "num", n |-> n]
LitV(b) == [t |-> "lit", b |-> b]
ListV(l) == [t |-> "list", l |-> l]
ObjV(k, o) == [t |-> "obj", k |-> k, o |-> o]
NoneV == LitV("null")
EmptyObj == ObjV(<<>>, <<>>)

IsObj(v) == v.t = "obj"
HasKey(v, key) == IsObj(v) /\ key \in DOMAIN v.o

\* d[key] = val on a dict: a new key is appended to the order, an existing
\* key keeps its place
DictSet(d, key, val) ==
    ObjV(IF key \in DOMAIN d.o THEN d.k ELSE Append(d.k, key),
         (key :> val) @@ d.o)

(***************************************************************************)
(* json.loads.  A parse result is [ok, v, i]: whether the text from the    *)
(* start position is well formed, the value, and the position after it.    *)
(* Covered grammar: objects, arrays, strings with the escapes \" \\ \/ \n  *)
(* \t, integers, true/false/null, and the whitespace characters space,     *)
(* newline and tab.                                                        *)
(***************************************************************************)
Fail(i) == [ok |-> FALSE, v |-> NoneV, i |-> i]
Okay(v, i) == [ok |-> TRUE, v |-> v, i |-> i]

Digits == {"0", "1", "2", "3", "4", "5", "6", "7", "8", "9"}
DigitVal == ("0" :> 0) @@ ("1" :> 1) @@ ("2" :> 2) @@ ("3" :> 3) @@ ("4" :> 4) @@
            ("5" :> 5) @@ ("6" :> 6) @@ ("7" :> 7) @@ ("8" :> 8) @@ ("9" :> 9)
JsonWs == {" ", "\n", "\t"}

RECURSIVE SkipWs(_, _)
SkipWs(s, i) == IF CharAt(s, i) \in JsonWs THEN SkipWs(s, i + 1) ELSE i

\* first position from i on that holds one of the characters, len(s) if none
NextOf(s, i, chars) ==
    LET at == {j \in i..(Len(s) - 1) : CharAt(s, j) \in chars}
    IN IF at = {} THEN Len(s) ELSE MinOf(at)

\* a scanned string with the text before it put in front
Prefixed(text, r) ==
    IF r.ok THEN Okay(StrV(text \o r.v.s), r.i) ELSE r

\* the character an escape stands for, "" for an escape the model's decoder
\* does not know
Unescaped(e) ==
    CASE e \in {"\"", "\\", "/"} -> e
      [] e = "n" -> "\n"
      [] e = "t" -> "\t"
      [] OTHER -> ""

\* py_scanstring: body of a string literal from position i (after the opening
\* quote); the text up to the next quote, backslash or control character at j
\* is taken as it is
RECURSIVE ScanString(_, _)
StringAt(s, i, j) ==
    CASE CharAt(s, j) = "\"" -> Okay(StrV(PySlice(s, i, j)), j + 1)
      [] CharAt(s, j) = "\\" /\ Unescaped(CharAt(s, j + 1)) # "" ->
            Prefixed(PySlice(s, i, j) \o Unescaped(CharAt(s, j + 1)), ScanString(s, j + 2))
      [] OTHER -> Fail(j)

ScanString(s, i) == StringAt(s, i, NextOf(s, i, {"\"", "\\", "\n", "\t"}))

RECURSIVE ScanDigits(_, _, _)
ScanDigits(s, i, n) ==
    IF CharAt(s, i) \in Digits
    THEN ScanDigits(s, i + 1, 10 * n + DigitVal[CharAt(s, i)])
    ELSE [n |-> n, i |-> i]

\* -?(0|[1-9][0-9]*)
ScanNumber(s, i) ==
    LET neg == CharAt(s, i) = "-"
        j == IF neg THEN i + 1 ELSE i
        d == IF CharAt(s, j) = "0" THEN [n |-> 0, i |-> j + 1] ELSE ScanDigits(s, j, 0)
    IN IF CharAt(s, j) \notin Digits THEN Fail(i)
       ELSE Okay(NumV(IF neg THEN 0 - d.n ELSE d.n), d.i)

RECURSIVE ScanValue(_, _), ScanArray(_, _, _), ScanObject(_, _, _)

\* JSONArray after an element r: "]" ends the array, "," leads to the next
ArrayAfter(s, j, items) ==
    IF CharAt(s, j) = "]" THEN Okay(ListV(items), j + 1)
    ELSE IF CharAt(s, j) = "," THEN ScanArray(s, SkipWs(s, j + 1), items)
    ELSE Fail(j)

ArrayItem(s, r, sofar) ==
    IF ~r.ok THEN r ELSE ArrayAfter(s, SkipWs(s, r.i), Append(sofar, r.v))

\* JSONArray: i is at the next element
ScanArray(s, i, sofar) == ArrayItem(s, ScanValue(s, i), sofar)

\* JSONObject after a pair: "}" ends the object, "," leads to the next key
ObjectAfter(s, m, pairs) ==
    IF CharAt(s, m) = "}" THEN Okay(pairs, m + 1)
    ELSE IF CharAt(s, m) = "," THEN ScanObject(s, SkipWs(s, m + 1), pairs)
    ELSE Fail(m)

ObjectValue(s, key, r, sofar) ==
    IF ~r.ok THEN r ELSE ObjectAfter(s, SkipWs(s, r.i), DictSet(sofar, key, r.v))

ObjectColon(s, key, j, sofar) ==
    IF CharAt(s, j) # ":" THEN Fail(j)
    ELSE ObjectValue(s, key, ScanValue(s, SkipWs(s, j + 1)), sofar)

ObjectKey(s, key, sofar) ==
    IF ~key.ok THEN key ELSE ObjectColon(s, key.v.s, SkipWs(s, key.i), sofar)

\* JSONObject: i is at the opening quote of the next key
ScanObject(s, i, sofar) ==
    IF CharAt(s, i) # "\"" THEN Fail(i)
    ELSE ObjectKey(s, ScanString(s, i + 1), sofar)

\* scan_once
ScanValue(s, i) ==
    IF CharAt(s, i) = "\"" THEN ScanString(s, i + 1)
    ELSE IF CharAt(s, i) = "{" THEN
         IF CharAt(s, SkipWs(s, i + 1)) = "}"
         THEN Okay(EmptyObj, SkipWs(s, i + 1) + 1)
         ELSE ScanObject(s, SkipWs(s, i + 1), EmptyObj)
    ELSE IF CharAt(s, i) = "[" THEN
         IF CharAt(s, SkipWs(s, i + 1)) = "]"
         THEN Okay(ListV(<<>>), SkipWs(s, i + 1) + 1)
         ELSE ScanArray(s, SkipWs(s, i + 1), <<>>)
    ELSE IF PySlice(s, i, i + 4) = "true" THEN Okay(LitV("true"), i + 4)
    ELSE IF PySlice(s, i, i + 5) = "false" THEN Okay(LitV("false"), i + 5)
    ELSE IF PySlice(s, i, i + 4) = "null" THEN Okay(NoneV, i + 4)
    ELSE IF CharAt(s, i) = "-" \/ CharAt(s, i) \in Digits THEN ScanNumber(s, i)
    ELSE Fail(i)

\* nothing but whitespace may follow the value
WholeText(s, r) == IF r.ok /\ SkipWs(s, r.i) = Len(s) THEN r ELSE Fail(0)

\* json.loads(s)
JsonLoads(s) == WholeText(s, ScanValue(s, SkipWs(s, 0)))

(***************************************************************************)
(* json.dumps with the default separators.                                 *)
(***************************************************************************)
\* ensure_ascii escaping of one character
EscapeChar(c) ==
    CASE c = "\"" -> "\\\""
      [] c = "\\" -> "\\\\"
      [] c = "\n" -> "\\n"
      [] c = "\t" -> "\\t"
      [] OTHER -> c

\* the text from position i on, escaped; j is the next character to escape
RECURSIVE EscapeStr(_, _)
EscapeAt(s, i, j) ==
    IF j >= Len(s) THEN PySlice(s, i, Len(s))
    ELSE PySlice(s, i, j) \o EscapeChar(CharAt(s, j)) \o EscapeStr(s, j + 1)

EscapeStr(s, i) == EscapeAt(s, i, NextOf(s, i, {"\"", "\\", "\n", "\t"}))

DumpStr(s) == "\"" \o EscapeStr(s, 0) \o "\""

RECURSIVE JsonDumps(_), DumpItems(_, _), DumpPairs(_, _)
JsonDumps(v) ==
    IF v.t = "str" THEN DumpStr(v.s)
    ELSE IF v.t = "num" THEN ToString(v.n)
    ELSE IF v.t = "lit" THEN v.b
    ELSE IF v.t = "list" THEN "[" \o DumpItems(v.l, 1) \o "]"
    ELSE "{" \o DumpPairs(v, 1) \o "}"

DumpItems(l, i) ==
    IF i > Len(l) THEN ""
    ELSE (IF i > 1 THEN ", " ELSE "") \o JsonDumps(l[i]) \o DumpItems(l, i + 1)

DumpPairs(d, i) ==
    IF i > Len(d.k) THEN ""
    ELSE (IF i > 1 THEN ", " ELSE "") \o DumpStr(d.k[i]) \o ": "
         \o JsonDumps(d.o[d.k[i]]) \o DumpPairs(d, i + 1)

(***************************************************************************)
(* Python object protocol on decoded JSON values.  A lookup result is      *)
(* [ok, v]; ok = FALSE stands for the exception Python raises              *)
(* (AttributeError, KeyError, IndexError or TypeError).                    *)
(***************************************************************************)
Raises == [ok |-> FALSE, v |-> NoneV]
Gives(v) == [ok |-> TRUE, v |-> v]

\* v.get(key, default)
PyGet(v, key, default) ==
    IF ~IsObj(v) THEN Raises
    ELSE IF key \in DOMAIN v.o THEN Gives(v.o[key]) ELSE Gives(default)

\* v[key] for a string key
PyItem(v, key) == IF HasKey(v, key) THEN Gives(v.o[key]) ELSE Raises

\* v[0]
PyFirst(v) ==
    IF v.t = "list" /\ Len(v.l) > 0 THEN Gives(v.l[1])
    ELSE IF v.t = "str" /\ Len(v.s) > 0 THEN Gives(StrV(CharAt(v.s, 0)))
    ELSE Raises

\* bool(v)
Truthy(v) ==
    IF v.t = "str" THEN v.s # ""
    ELSE IF v.t = "num" THEN v.n # 0
    ELSE IF v.t = "lit" THEN v.b = "true"
    ELSE IF v.t = "list" THEN Len(v.l) > 0
    ELSE Len(v.k) > 0

(***************************************************************************)
(* The answer draft and its partial extraction (bot.py 175, 210-268).      *)
(* An extraction result is [ok, acc, hit]: ok = FALSE when the statement   *)
(* raises, acc the draft afterwards, hit whether the field was assigned.   *)
(***************************************************************************)
FourKeys == {"title", "paragraphs", "bullets", "info_lain"}

InitDraft ==
    ObjV(<<"title", "paragraphs", "bullets", "info_lain">>,
         ("title" :> StrV("")) @@ ("paragraphs" :> ListV(<<>>)) @@
         ("bullets" :> ListV(<<>>)) @@ ("info_lain" :> StrV("")))

\* the draft before partial extraction of one fragment
Draft(acc) == [ok |-> TRUE, acc |-> acc, hits |-> {}]
Thrown(d) == [ok |-> FALSE, acc |-> d.acc, hits |-> d.hits]
Assigned(d, key, val) ==
    [ok |-> TRUE, acc |-> DictSet(d.acc, key, val),
     hits |-> IF val \in {StrV(""), ListV(<<>>)} THEN d.hits ELSE d.hits \cup {key}]

\* lines 210-217
ExtractTitle(buffer, d) ==
    IF ~d.ok \/ ~PyIn("\"title\":", buffer) THEN d
    ELSE IF ~PyItem(d.acc, "title").ok THEN Thrown(d)
    ELSE IF PyItem(d.acc, "title").v # StrV("") THEN d
    ELSE LET title_start == PyFind(buffer, "\"title\"", 0) + 8
             title_end == PyFind(buffer, "\"", title_start + 2)
         IN IF title_end > title_start
            THEN Assigned(d, "title", StrV(PySlice(buffer, title_start + 1, title_end)))
            ELSE d

\* lines 228-232 and 243-247: the bare except also swallows the failed
\* assignment to a draft that is not a dict
AssignArray(d, key, parsed) ==
    IF ~parsed.ok \/ ~IsObj(d.acc) THEN d ELSE Assigned(d, key, parsed.v)

\* lines 220-232 (key = "paragraphs") and 235-247 (key = "bullets")
ExtractArray(buffer, d, key) ==
    LET marker == "\"" \o key \o "\""
        match == PyFind(buffer, marker, 0)
        start == PyFind(buffer, "[", match)
        end == PyFind(buffer, "]", start)
    IN IF ~d.ok \/ ~PyIn(marker \o ":", buffer) THEN d
       ELSE IF ~(match > 0 - 1 /\ PyIn("]", PySlice(buffer, match, Len(buffer)))) THEN d
       ELSE IF ~(end > start) THEN d
       ELSE AssignArray(d, key, JsonLoads(PySlice(buffer, start, end + 1)))

\* lines 250-256
ExtractInfo(buffer, d) ==
    IF ~d.ok \/ ~PyIn("\"info_lain\":", buffer) THEN d
    ELSE LET info_start == PyFind(buffer, "\"info_lain\"", 0) + 12
             info_end == PyFind(buffer, "\"", info_start + 2)
         IN IF ~(info_end > info_start) THEN d
            ELSE IF ~IsObj(d.acc) THEN Thrown(d)
            ELSE Assigned(d, "info_lain",
                          StrV(PySlice(buffer, info_start + 1, info_end)))

\* lines 210-256: the four extractions in the order of the code
PartialExtract(buffer, acc) ==
    ExtractInfo(buffer,
        ExtractArray(buffer,
            ExtractArray(buffer, ExtractTitle(buffer, Draft(acc)), "paragraphs"),
            "bullets"))

\* FullParse with the draft started afresh when the buffer does not parse
FullParseReset(complete_json, acc) ==
    IF complete_json.ok THEN complete_json.v ELSE InitDraft

\* FullParse with the parsed object merged into the draft key by key
FullParseMerge(complete_json, acc) ==
    IF ~complete_json.ok THEN acc
    ELSE IF ~(IsObj(complete_json.v) /\ IsObj(acc)) THEN complete_json.v
    ELSE ObjV(acc.k \o SelectSeq(complete_json.v.k, LAMBDA key : key \notin DOMAIN acc.o),
              [key \in DOMAIN acc.o \cup DOMAIN complete_json.v.o |->
                  IF key \in DOMAIN complete_json.v.o THEN complete_json.v.o[key]
                  ELSE acc.o[key]])

\* lines 259-265: complete_json is the outcome of json.loads(buffer)
FullParse(complete_json, acc) ==
    IF complete_json.ok THEN complete_json.v ELSE acc

\* a field of the draft that holds something
Populated(v, key) == HasKey(v, key) /\ v.o[key] \notin {StrV(""), ListV(<<>>)}

(***************************************************************************)
(* One line of the event stream (bot.py 177-276).  The result is           *)
(* [kind, buffer, acc, hits, full, frag]:                                  *)
(*   "skip"   the line is passed over (continue / falsy content)           *)
(*   "done"   the terminal line, break                                     *)
(*   "raise"  an exception leaves the generator                            *)
(*   "yield"  a snapshot acc is yielded                                    *)
(* hits are the fields partial extraction assigned a non-empty value, full *)
(* tells whether the whole buffer parsed, frag whether the line carried a  *)
(* string content delta, empty or not.                                     *)
(***************************************************************************)
LineResult(kind, buffer, acc) ==
    [kind |-> kind, buffer |-> buffer, acc |-> acc, hits |-> {}, full |-> FALSE,
     frag |-> FALSE]

\* the outcome of a line whose content delta is a string
AsFragment(r) == [r EXCEPT !.frag = TRUE]

\* lines 258-268: full parse and yield, unless partial extraction raised
Snapshot(buffer, d, complete_json) ==
    IF ~d.ok THEN LineResult("raise", buffer, d.acc)
    ELSE [kind |-> "yield", buffer |-> buffer, acc |-> FullParse(complete_json, d.acc),
          hits |-> d.hits, full |-> complete_json.ok, frag |-> FALSE]

\* lines 203-268 on the extended buffer
OnBuffer(buffer, acc) ==
    Snapshot(buffer, PartialExtract(buffer, acc), JsonLoads(buffer))

\* OnContent with the fragment assigned to the buffer instead of appended
OnContentOverwrite(buffer, acc, content) ==
    IF content.t # "str" THEN LineResult("raise", buffer, acc)
    ELSE AsFragment(OnBuffer(content.s, acc))

\* lines 200-268, content truthy: buffer += content
OnContent(buffer, acc, content) ==
    IF content.t # "str" THEN LineResult("raise", buffer, acc)
    ELSE AsFragment(OnBuffer(buffer \o content.s, acc))

\* lines 197-198: chunk.get("choices", [{}])[0].get("delta", {}).get("content", "")
GetFirst(choices) == IF choices.ok THEN PyFirst(choices.v) ELSE Raises
GetDelta(first) == IF first.ok THEN PyGet(first.v, "delta", EmptyObj) ELSE Raises
GetContent(delta) == IF delta.ok THEN PyGet(delta.v, "content", StrV("")) ELSE Raises
ChunkContent(chunk) ==
    GetContent(GetDelta(GetFirst(PyGet(chunk, "choices", ListV(<<EmptyObj>>)))))

\* lines 197-276
OnDelta(content, buffer, acc) ==
    IF ~content.ok THEN LineResult("raise", buffer, acc)
    ELSE IF Truthy(content.v) THEN OnContent(buffer, acc, content.v)
    ELSE IF content.v.t = "str" THEN AsFragment(LineResult("skip", buffer, acc))
    ELSE LineResult("skip", buffer, acc)

\* lines 192-276
OnChunk(chunk, buffer, acc) ==
    IF ~chunk.ok THEN LineResult("skip", buffer, acc)
    ELSE OnDelta(ChunkContent(chunk.v), buffer, acc)

\* lines 186-276
OnData(data, buffer, acc) ==
    IF data = "[DONE]" THEN LineResult("done", buffer, acc)
    ELSE OnChunk(JsonLoads(data), buffer, acc)

\* lines 178-276
OnLine(line, buffer, acc) ==
    IF line = "" THEN LineResult("skip", buffer, acc)
    ELSE IF ~StartsWith(line, "data: ") THEN LineResult("skip", buffer, acc)
    ELSE OnData(PySlice(line, 6, Len(line)), buffer, acc)

\* lines 279-285: final_json is the outcome of json.loads(buffer)
FinalSnapshot(final_json, acc) == IF final_json.ok THEN final_json.v ELSE acc

\* FinalContent with the two branches exchanged
FinalContentSwapped(final_json, buffer, acc) ==
    IF final_json.ok THEN StrV(JsonDumps(final_json.v)) ELSE StrV(buffer)

\* lines 282, 286-288: the assistant turn's content
FinalContent(final_json, buffer, acc) ==
    IF final_json.ok THEN StrV(buffer) ELSE StrV(JsonDumps(acc))

(***************************************************************************)
(* The non-streaming variant (bot.py 100-122).  The result is              *)
(* [ok, answer_text, answer_json]; ok = FALSE when the call raises.        *)
(***************************************************************************)
FallbackAnswer == ObjV(<<"title">>, "title" :> StrV("Error"))

\* lines 108-116: parsed is the outcome of json.loads(answer_text)
ParseAnswer(answer_text, parsed) ==
    IF answer_text.t = "str" /\ parsed.ok THEN parsed.v ELSE FallbackAnswer

AnswerResult(answer_text) ==
    IF ~answer_text.ok
    THEN [ok |-> FALSE, answer_text |-> NoneV, answer_json |-> NoneV]
    ELSE [ok |-> TRUE, answer_text |-> answer_text.v,
          answer_json |-> ParseAnswer(answer_text.v,
                             JsonLoads(IF answer_text.v.t = "str"
                                       THEN answer_text.v.s ELSE ""))]

\* line 104: data["choices"][0]["message"]["content"]
GetChoices(data) == IF data.ok THEN PyItem(data.v, "choices") ELSE Raises
GetMessage(first) == IF first.ok THEN PyItem(first.v, "message") ELSE Raises
GetAnswerText(message) == IF message.ok THEN PyItem(message.v, "content") ELSE Raises

\* lines 101-116
OnBody(body) ==
    AnswerResult(GetAnswerText(GetMessage(GetFirst(GetChoices(JsonLoads(body))))))

(***************************************************************************)
(* Inputs: what the caller asks and what the upstream API answers.         *)
(***************************************************************************)
\* the n-th query put to one conversation
Query(n) == "q" \o ToString(n)

\* the history a caller passes in: a new one or one with an earlier exchange
PriorHistories ==
    {<<>>, <<[role |-> "user", content |-> StrV("q0")],
             [role |-> "assistant", content |-> StrV("{\"title\":\"Hai\"}")]>>}

\* texts the upstream model streams as the concatenation of its fragments
DocHi == "{\"title\":\"Hi\"}"
DocFull == "{\"title\":\"Hi\",\"bullets\":[\"b\"]}"
DocDup == "{\"paragraphs\":[\"a\"],\"paragraphs\":[]}x"
DocList == "[1] "
DocOther == "{\"x\":1}"
DocTwo == "{}{\"title\":\"a\"}"
DocText == "Maaf"
DocEmptyTitle == "{\"title\":\"\",\"info_lain\":\"n\"}"
DocNested == "{\"a\":{\"title\":\"Hi\"}}x"
DocListObj == "[{\"paragraphs\":[\"a\"]}]x"
DocSpaced == "{\"title\": \"Hi\"}"
DocBracket == "{\"paragraphs\":\"[1]\"}"
DocListTitle == "[{\"title\":\"a\"}] "
Docs == {DocHi, DocFull, DocDup, DocList, DocOther, DocTwo, DocText,
         DocEmptyTitle, DocNested, DocListObj, DocSpaced, DocBracket, DocListTitle}

\* the texts streamed in the runs over several exchanges
SessionDocs == {DocHi, DocText}

\* the event-stream line that carries a content fragment
EnvelopeLine(content) ==
    "data: {\"choices\":[{\"delta\":{\"content\":" \o DumpStr(content) \o "}}]}"

\* lines that carry no content fragment
OtherLines ==
    {"", ": keep-alive", "data: {oops", "data: {}",
     "data: {\"choices\":[{\"delta\":{}}]}",
     "data: {\"choices\":[{\"delta\":{\"content\":\"\"}}]}",
     "data: [1]", "data: {\"choices\":[]}",
     "data: {\"choices\":[{\"delta\":{\"content\":5}}]}"}

\* upstream failures: status and body
ErrorResponses == {[status |-> 500, text |-> "oops"], [status |-> 429, text |-> ""]}

\* bodies of the non-streaming response
AnswerBody(answer_text) ==
    "{\"choices\":[{\"message\":{\"content\":" \o DumpStr(answer_text) \o "}}]}"

Bodies ==
    {"oops", "{\"error\":\"x\"}", "{\"choices\":[]}",
     "{\"choices\":[{\"message\":{\"content\":null}}]}",
     AnswerBody(DocHi), AnswerBody(DocText), AnswerBody(DocList)}

\* the emails and phone numbers of the forms posted to the service
Emails == {"a@x", "b@x"}
Phones == {"0812"}

\* lines 27-31: the retrieved documents joined by newlines
get_relevant_context(q) == "doc for " \o q

\* lines 38-53 (its first sentence stands for the whole prompt)
system_prompt ==
    "Kamu adalah asisten AI bernama GITA yang dirancang untuk menjawab segala pertanyaan tentang perusahaan ini. "

\* lines 55-66
prepare_messages(q, conversation_history, context) ==
    <<[role |-> "system", content |-> StrV(system_prompt)]>>
    \o conversation_history
    \o <<[role |-> "user",
          content |-> StrV("Informasi database:\n" \o context
                           \o "\n\nPertanyaan: " \o q)]>>

(***************************************************************************)
(* State.                                                                  *)
(***************************************************************************)
VARIABLES
    history,    \* conversation_history: sequence of [role, content]
    histEx,     \* for each turn of history, the exchange that appended it
    hist0,      \* history when the query in hand was started
    exchanges,  \* number of queries started on this history
    query,      \* the query in hand
    pc,         \* where the call in hand stands
    outcome,    \* how the last call ended
    upstream,   \* text the upstream has not yet sent
    sent,       \* text the upstream has sent as content fragments
    nlines,     \* lines read from the stream
    buffer,     \* buffer
    acc,        \* accumulated_json
    last,       \* the value emitted last
    nout,       \* number of values emitted by the generator
    pop,        \* fields partial extraction has populated in this query
    lastFull,   \* the last snapshot came from a successful full parse
    ret,        \* value returned by the non-streaming call
    messages,   \* the message list of the request in hand
    completed,  \* number of calls on this history that ran to their end
    nfrag,      \* lines read that carried a string content delta
    ended,      \* how the stream in hand ended: "no", "terminal", "closed"
    sessions,   \* app.py sessions: for each email its history list, 0 if none
    heap,       \* the conversation_history lists created so far
    heapBy,     \* for each turn of each list, the request that appended it
    reqs        \* the HTTP requests received so far, each with its position

vars == <<history, histEx, hist0, exchanges, query, pc, outcome, upstream, sent,
          nlines, buffer, acc, last, nout, pop, lastFull, ret, messages, completed,
          nfrag, ended, sessions, heap, heapBy, reqs>>

bot == <<history, histEx, hist0, exchanges, query, pc, outcome, upstream, sent,
         nlines, buffer, acc, last, nout, pop, lastFull, ret, messages, completed,
         nfrag, ended>>
app == <<sessions, heap, heapBy, reqs>>

ledger == <<history, histEx, completed>>
decoder == <<upstream, sent, nlines, buffer, acc, pop, lastFull, nfrag, ended>>

Turn(role, content) == [role |-> role, content |-> content]

\* app.py line 17: sessions = {}, no request received yet
InitApp ==
    /\ sessions = [e \in Emails |-> 0]
    /\ heap = <<>>
    /\ heapBy = <<>>
    /\ reqs = <<>>

Init ==
    /\ history = <<>>
    /\ histEx = <<>>
    /\ hist0 = <<>>
    /\ exchanges = 0
    /\ query = ""
    /\ pc = "idle"
    /\ outcome = "none"
    /\ upstream = ""
    /\ sent = ""
    /\ nlines = 0
    /\ buffer = ""
    /\ acc = InitDraft
    /\ last = NoneV
    /\ nout = 0
    /\ pop = {}
    /\ lastFull = FALSE
    /\ ret = NoneV
    /\ messages = <<>>
    /\ completed = 0
    /\ nfrag = 0
    /\ ended = "no"
    /\ InitApp

\* a call starts: per-call state is fresh
Begin(at) ==
    /\ pc = "idle"
    /\ exchanges < MaxExchanges
    /\ exchanges' = exchanges + 1
    /\ query' = Query(exchanges + 1)
    /\ hist0' = history
    /\ pc' = at
    /\ outcome' = "none"
    /\ upstream' = ""
    /\ sent' = ""
    /\ nlines' = 0
    /\ buffer' = ""
    /\ acc' = InitDraft
    /\ last' = NoneV
    /\ nout' = 0
    /\ pop' = {}
    /\ lastFull' = FALSE
    /\ ret' = NoneV
    /\ messages' = prepare_messages(Query(exchanges + 1), history,
                                    get_relevant_context(Query(exchanges + 1)))
    /\ nfrag' = 0
    /\ ended' = "no"
    /\ UNCHANGED app

AppendTurn(role, content) ==
    /\ history' = Append(history, Turn(role, content))
    /\ histEx' = Append(histEx, exchanges)

(***************************************************************************)
(* chatbot_with_memory_json_stream                                         *)
(***************************************************************************)
\* StreamDispatch with the user turn recorded before the request is posted
StreamDispatchRecords ==
    /\ Begin("sPosted")
    /\ history' = Append(history, Turn("user", StrV(Query(exchanges + 1))))
    /\ histEx' = Append(histEx, exchanges + 1)
    /\ completed' = completed

\* lines 132-158: the request is posted
StreamDispatch ==
    /\ Begin("sPosted")
    /\ UNCHANGED ledger

\* ErrorEvent without the response body
ErrorEventNoBody(r) ==
    ObjV(<<"title", "paragraphs", "bullets", "info_lain">>,
         ("title" :> StrV("Error")) @@
         ("paragraphs" :> ListV(<<StrV("Error: " \o ToString(r.status))>>)) @@
         ("bullets" :> ListV(<<>>)) @@
         ("info_lain" :> StrV("Ada kesalahan dalam permintaan")))

\* lines 160-168: the status is not 200, the error object is yielded
ErrorEvent(r) ==
    ObjV(<<"title", "paragraphs", "bullets", "info_lain">>,
         ("title" :> StrV("Error")) @@
         ("paragraphs" :> ListV(<<StrV("Error: " \o ToString(r.status)), StrV(r.text)>>)) @@
         ("bullets" :> ListV(<<>>)) @@
         ("info_lain" :> StrV("Ada kesalahan dalam permintaan")))

StreamError(r) ==
    /\ pc = "sPosted"
    /\ last' = ErrorEvent(r)
    /\ nout' = nout + 1
    /\ pc' = "errYield"
    /\ UNCHANGED <<ledger, hist0, exchanges, query, messages, app, outcome, decoder, ret>>

\* line 168: the generator returns after the error object
ErrorReturn ==
    /\ pc = "errYield"
    /\ pc' = "idle"
    /\ outcome' = "error"
    /\ UNCHANGED <<ledger, hist0, exchanges, query, messages, app, decoder, last, nout, ret>>

\* lines 160, 171-175: status 200, the user turn is recorded, the stream opens
StreamOpen(doc) ==
    /\ pc = "sPosted"
    /\ AppendTurn("user", StrV(query))
    /\ buffer' = ""
    /\ acc' = InitDraft
    /\ upstream' = doc
    /\ pc' = "reading"
    /\ UNCHANGED <<hist0, exchanges, query, messages, app, outcome, sent, nlines, last,
                   nout, pop, lastFull, ret, completed, nfrag, ended>>

\* lines 177-276 for one line of the stream, r its outcome
LineStep(r) ==
    /\ pc \in {"reading", "yield"}
    /\ r.kind \in {"skip", "raise", "yield"}
    /\ nlines < MaxLines
    /\ nlines' = nlines + 1
    /\ buffer' = r.buffer
    /\ acc' = r.acc
    /\ pop' = pop \cup r.hits
    /\ nfrag' = IF r.frag THEN nfrag + 1 ELSE nfrag
    /\ IF r.kind = "yield"
       THEN /\ last' = r.acc
            /\ nout' = nout + 1
            /\ lastFull' = r.full
            /\ pc' = "yield"
            /\ outcome' = outcome
       ELSE /\ UNCHANGED <<last, nout, lastFull>>
            /\ pc' = IF r.kind = "raise" THEN "idle" ELSE "reading"
            /\ outcome' = IF r.kind = "raise" THEN "raised" ELSE outcome
    /\ UNCHANGED <<ledger, hist0, exchanges, query, messages, app, ret>>

ReadLine(line) ==
    /\ LineStep(OnLine(line, buffer, acc))
    /\ ended' = ended

\* the upstream sends the next n characters of its text as one fragment
ReadFragment(n) ==
    /\ n \in 1..Len(upstream)
    /\ ReadLine(EnvelopeLine(SubSeq(upstream, 1, n)))
    /\ upstream' = SubSeq(upstream, n + 1, Len(upstream))
    /\ sent' = sent \o SubSeq(upstream, 1, n)

\* the upstream sends a line that carries no fragment
ReadOther(line) ==
    /\ ReadLine(line)
    /\ UNCHANGED <<upstream, sent>>

\* lines 279-285: the final snapshot is yielded
FinalYield(final_json) ==
    /\ last' = FinalSnapshot(final_json, acc)
    /\ nout' = nout + 1
    /\ lastFull' = final_json.ok
    /\ pc' = "finalYield"
    /\ UNCHANGED <<ledger, hist0, exchanges, query, messages, app, outcome, upstream, sent,
                   nlines, buffer, acc, pop, ret, nfrag>>

Finalize == FinalYield(JsonLoads(buffer))

\* lines 178-190, 279-285: r is the outcome of the terminal line; the loop
\* is left and the final snapshot is yielded
TerminalStep(r) ==
    IF r.kind = "done" THEN Finalize
    ELSE LineStep(r) /\ UNCHANGED <<upstream, sent>>

\* the upstream sends the terminal line
ReadDone ==
    /\ pc \in {"reading", "yield"}
    /\ TerminalStep(OnLine("data: [DONE]", buffer, acc))
    /\ ended' = "terminal"

\* line 177: the stream ends without a terminal line
StreamClosed ==
    /\ pc \in {"reading", "yield"}
    /\ Finalize
    /\ ended' = "closed"

\* lines 282, 286-288: the generator is resumed after the final snapshot
FinalResume ==
    /\ pc = "finalYield"
    /\ AppendTurn("assistant", FinalContent(JsonLoads(buffer), buffer, acc))
    /\ completed' = completed + 1
    /\ pc' = "idle"
    /\ outcome' = "done"
    /\ UNCHANGED <<hist0, exchanges, query, messages, app, decoder, last, nout, ret>>

\* the consumer drops the generator while it is suspended at a yield
Cancel ==
    /\ pc \in {"yield", "finalYield", "errYield"}
    /\ pc' = "idle"
    /\ outcome' = "cancelled"
    /\ UNCHANGED <<ledger, hist0, exchanges, query, messages, app, decoder, last, nout, ret>>

(***************************************************************************)
(* chatbot_with_memory_json                                                *)
(***************************************************************************)
\* lines 76-100: the request is posted
AskDispatch ==
    /\ Begin("nPosted")
    /\ UNCHANGED ledger

\* AskTurns with the two appends in the other order
AskTurnsSwapped(q, answer_text) ==
    <<Turn("assistant", answer_text), Turn("user", StrV(q))>>

\* lines 119-120: the two turns of the exchange
AskTurns(q, answer_text) == <<Turn("user", StrV(q)), Turn("assistant", answer_text)>>

\* lines 101-122: the response is decoded, both turns are recorded
AskReturn(r) ==
    /\ pc = "nPosted"
    /\ pc' = "idle"
    /\ IF r.ok
       THEN /\ history' = history \o AskTurns(query, r.answer_text)
            /\ histEx' = histEx \o <<exchanges, exchanges>>
            /\ completed' = completed + 1
            /\ ret' = r.answer_json
            /\ outcome' = "returned"
       ELSE /\ UNCHANGED <<ledger, ret>>
            /\ outcome' = "askRaised"
    /\ UNCHANGED <<hist0, exchanges, query, messages, app, decoder, last, nout>>

AskResponse(body) == AskReturn(OnBody(body))

\* several exchanges, one after the other, on one conversation history
Next ==
    \/ StreamDispatch
    \/ \E r \in ErrorResponses : StreamError(r)
    \/ ErrorReturn
    \/ \E doc \in SessionDocs : StreamOpen(doc)
    \/ \E n \in 1..Len(upstream) : ReadFragment(n)
    \/ \E line \in OtherLines : ReadOther(line)
    \/ ReadDone
    \/ StreamClosed
    \/ FinalResume
    \/ Cancel
    \/ AskDispatch
    \/ \E body \in Bodies : AskResponse(body)

Spec == Init /\ [][Next]_vars

\* one streaming call on a history the caller passes in
InitDecoder ==
    /\ history \in PriorHistories
    /\ histEx = [i \in 1..Len(history) |-> 0]
    /\ hist0 = <<>>
    /\ exchanges = 0
    /\ query = ""
    /\ pc = "idle"
    /\ outcome = "none"
    /\ upstream = ""
    /\ sent = ""
    /\ nlines = 0
    /\ buffer = ""
    /\ acc = InitDraft
    /\ last = NoneV
    /\ nout = 0
    /\ pop = {}
    /\ lastFull = FALSE
    /\ ret = NoneV
    /\ messages = <<>>
    /\ completed = 0
    /\ nfrag = 0
    /\ ended = "no"
    /\ InitApp

NextDecoder ==
    \/ exchanges = 0 /\ StreamDispatch
    \/ \E r \in ErrorResponses : StreamError(r)
    \/ ErrorReturn
    \/ \E doc \in Docs : StreamOpen(doc)
    \/ \E n \in 1..Len(upstream) : ReadFragment(n)
    \/ \E line \in OtherLines : ReadOther(line)
    \/ ReadDone
    \/ StreamClosed
    \/ FinalResume
    \/ Cancel

SpecDecoder == InitDecoder /\ [][NextDecoder]_vars

(***************************************************************************)
(* app.py: the HTTP service.  Each request is handled by a thread of its   *)
(* own; the threads share the module-level dictionary sessions.            *)
(***************************************************************************)
\* a request as it arrives
Request(route, email, phone, q) ==
    [route |-> route, email |-> email, phone |-> phone, query |-> q,
     pc |-> "arrived", conversation_history |-> 0, messages |-> <<>>,
     answer_text |-> NoneV, answer_json |-> NoneV, status |-> 0]

\* the handler returns its response
Responded(r, status) == [r EXCEPT !.pc = "sent", !.status = status]

\* the handler goes on to its next step
At(r, at) == [r EXCEPT !.pc = at]

\* a call of chatbot_with_memory_json returns: /ask answers with status 200
\* (app.py line 66), a direct caller gets the value
Returned(r) == IF r.route = "ask" THEN Responded(r, 200) ELSE At(r, "returned")

\* a call of chatbot_with_memory_json raises: /ask answers with status 500
\* (app.py lines 67-69), a direct caller gets the exception
Raised(r) == IF r.route = "ask" THEN Responded(r, 500) ELSE At(r, "raised")

\* email in sessions
HasSession(email) == email \in Emails /\ sessions[email] # 0

\* app.py lines 25-45: /start
StartChat(email, phone) ==
    /\ Len(reqs) < MaxRequests
    /\ IF email = "" \/ phone = ""
       THEN /\ reqs' = Append(reqs, Responded(Request("start", email, phone, ""), 400))
            /\ UNCHANGED <<sessions, heap, heapBy>>
       ELSE /\ heap' = Append(heap, <<>>)
            /\ heapBy' = Append(heapBy, <<>>)
            /\ sessions' = [sessions EXCEPT ![email] = Len(heap) + 1]
            /\ reqs' = Append(reqs, Responded(Request("start", email, phone, ""), 200))
    /\ UNCHANGED bot

\* app.py lines 48-60: /ask, the request is validated
AskArrive(email, q) ==
    /\ Len(reqs) < MaxRequests
    /\ reqs' = Append(reqs, IF q = "" \/ email = "" \/ ~HasSession(email)
                            THEN Responded(Request("ask", email, "", q), 400)
                            ELSE At(Request("ask", email, "", q), "checked"))
    /\ UNCHANGED <<sessions, heap, heapBy, bot>>

\* app.py lines 62-63, 67-69: the session's history list is looked up
AskLookup(t) ==
    /\ reqs[t].route = "ask" /\ reqs[t].pc = "checked"
    /\ reqs' = [reqs EXCEPT ![t] =
                  IF HasSession(reqs[t].email)
                  THEN [At(reqs[t], "called") EXCEPT
                           !.conversation_history = sessions[reqs[t].email]]
                  ELSE Responded(reqs[t], 500)]
    /\ UNCHANGED <<sessions, heap, heapBy, bot>>

\* bot.py lines 76-77 with every caller's list in place of one shared list
CallArriveShared(q) ==
    /\ Len(reqs) < MaxRequests
    /\ heap' = IF heap = <<>> THEN <<<<>>>> ELSE heap
    /\ heapBy' = IF heapBy = <<>> THEN <<<<>>>> ELSE heapBy
    /\ reqs' = Append(reqs, [At(Request("call", "", "", q), "called") EXCEPT
                                !.conversation_history = 1])
    /\ UNCHANGED <<sessions, bot>>

\* bot.py lines 69-77: chatbot_with_memory_json is called without a history
\* argument, conversation_history = []
CallArrive(q) ==
    /\ Len(reqs) < MaxRequests
    /\ heap' = Append(heap, <<>>)
    /\ heapBy' = Append(heapBy, <<>>)
    /\ reqs' = Append(reqs, [At(Request("call", "", "", q), "called") EXCEPT
                                !.conversation_history = Len(heap) + 1])
    /\ UNCHANGED <<sessions, bot>>

\* bot.py lines 76-100: the messages are built from the list and posted
AskPost(t) ==
    /\ reqs[t].route \in {"ask", "call"} /\ reqs[t].pc = "called"
    /\ reqs' = [reqs EXCEPT ![t] =
                  [At(reqs[t], "posted") EXCEPT
                      !.messages = prepare_messages(reqs[t].query,
                                       heap[reqs[t].conversation_history],
                                       get_relevant_context(reqs[t].query))]]
    /\ UNCHANGED <<sessions, heap, heapBy, bot>>

\* the turn is appended to the list by request t
HeapAppend(t, turn) ==
    /\ heap' = [heap EXCEPT ![reqs[t].conversation_history] = Append(@, turn)]
    /\ heapBy' = [heapBy EXCEPT ![reqs[t].conversation_history] = Append(@, t)]

\* bot.py lines 101-119, app.py lines 67-69: the response is decoded and the
\* user turn appended; an exception becomes status 500
AskDecoded(t, r) ==
    /\ reqs[t].route \in {"ask", "call"} /\ reqs[t].pc = "posted"
    /\ IF r.ok
       THEN /\ HeapAppend(t, AskTurns(reqs[t].query, r.answer_text)[1])
            /\ reqs' = [reqs EXCEPT ![t] =
                          [At(reqs[t], "appended") EXCEPT
                              !.answer_text = r.answer_text,
                              !.answer_json = r.answer_json]]
       ELSE /\ reqs' = [reqs EXCEPT ![t] = Raised(reqs[t])]
            /\ UNCHANGED <<heap, heapBy>>
    /\ UNCHANGED <<sessions, bot>>

AskResponded(t, body) == AskDecoded(t, OnBody(body))

\* bot.py lines 120-122, app.py line 66: the assistant turn is appended and
\* the answer returned
AskAnswered(t) ==
    /\ reqs[t].route \in {"ask", "call"} /\ reqs[t].pc = "appended"
    /\ HeapAppend(t, AskTurns(reqs[t].query, reqs[t].answer_text)[2])
    /\ reqs' = [reqs EXCEPT ![t] = Returned(reqs[t])]
    /\ UNCHANGED <<sessions, bot>>

\* app.py lines 185-214: /finish, the request is validated and the transcript
\* handed to send_email
FinishArrive(email, phone, parsed) ==
    /\ Len(reqs) < MaxRequests
    /\ reqs' = Append(reqs, IF ~parsed \/ email = "" \/ phone = ""
                            THEN Responded(Request("finish", email, phone, ""), 400)
                            ELSE At(Request("finish", email, phone, ""), "sending"))
    /\ UNCHANGED <<sessions, heap, heapBy, bot>>

\* app.py lines 214-226: the email was sent, the session is removed
FinishSent(t) ==
    /\ reqs[t].route = "finish" /\ reqs[t].pc = "sending"
    /\ sessions' = [sessions EXCEPT ![reqs[t].email] = 0]
    /\ reqs' = [reqs EXCEPT ![t] = Responded(reqs[t], 200)]
    /\ UNCHANGED <<heap, heapBy, bot>>

\* FinishFailed with the clean-up of lines 218-219 done on failure too
FinishFailedRemoves(t) ==
    /\ reqs[t].route = "finish" /\ reqs[t].pc = "sending"
    /\ sessions' = [sessions EXCEPT ![reqs[t].email] = 0]
    /\ reqs' = [reqs EXCEPT ![t] = Responded(reqs[t], 500)]
    /\ UNCHANGED <<heap, heapBy, bot>>

\* app.py lines 227-257: send_email raised, the session is kept
FinishFailed(t) ==
    /\ reqs[t].route = "finish" /\ reqs[t].pc = "sending"
    /\ reqs' = [reqs EXCEPT ![t] = Responded(reqs[t], 500)]
    /\ UNCHANGED <<sessions, heap, heapBy, bot>>

\* the forms and payloads the clients post
FormEmails == Emails \cup {""}
FormPhones == Phones \cup {""}
AskBodies == {"oops", AnswerBody(DocHi)}

\* the service under concurrent requests
NextApp ==
    \/ \E email \in FormEmails, phone \in FormPhones : StartChat(email, phone)
    \/ \E email \in FormEmails, q \in {"", Query(Len(reqs) + 1)} : AskArrive(email, q)
    \/ CallArrive(Query(Len(reqs) + 1))
    \/ \E t \in 1..Len(reqs) : AskLookup(t)
    \/ \E t \in 1..Len(reqs) : AskPost(t)
    \/ \E t \in 1..Len(reqs), body \in AskBodies : AskResponded(t, body)
    \/ \E t \in 1..Len(reqs) : AskAnswered(t)
    \/ \E email \in FormEmails, phone \in FormPhones, parsed \in BOOLEAN :
           FinishArrive(email, phone, parsed)
    \/ \E t \in 1..Len(reqs) : FinishSent(t)
    \/ \E t \in 1..Len(reqs) : FinishFailed(t)

SpecApp == Init /\ [][NextApp]_vars

(***************************************************************************)
(* Properties.                                                             *)
(***************************************************************************)
IsStrList(v) == v.t = "list" /\ \A i \in 1..Len(v.l) : v.l[i].t = "str"

\* an object of the four-field answer schema
IsFourField(v) ==
    /\ IsObj(v)
    /\ DOMAIN v.o \subseteq FourKeys
    /\ \A key \in DOMAIN v.o :
          IF key \in {"title", "info_lain"} THEN v.o[key].t = "str"
          ELSE IsStrList(v.o[key])

UserTurn == Turn("user", StrV(query))
Finalized == pc = "finalYield" \/ outcome = "done"

\* C1: a status-200 stream never makes the generator raise, whatever lines
\* it carries.
C1_StreamNeverRaises == outcome # "raised"

\* C2: every value the generator emits is an object whose keys are among
\* title, paragraphs, bullets, info_lain.
C2_EmittedFourKeys == nout > 0 => (IsObj(last) /\ DOMAIN last.o \subseteq FourKeys)

\* C3: when the fragments sent concatenate to a valid object of the
\* four-field schema, the final snapshot is the parse of that text, however
\* it was split (Scenario A: title == "Hi").
C3_FinalEqualsParse ==
    (Finalized /\ JsonLoads(sent).ok /\ IsFourField(JsonLoads(sent).v)) =>
        /\ last = JsonLoads(sent).v
        /\ sent = DocHi => last = ObjV(<<"title">>, "title" :> StrV("Hi"))
        /\ sent = DocEmptyTitle =>
              last.o = (("title" :> StrV("")) @@ ("info_lain" :> StrV("n")))

\* the valid text arrived in at least two fragments, partial extraction had
\* taken a title that the parse does not confirm
C3_Witness ==
    /\ outcome = "done"
    /\ sent = DocEmptyTitle
    /\ nout >= 3
    /\ "title" \in pop
    /\ last.o["title"] = StrV("")

C5_LedgerOrder ==
    /\ \A i, j \in 1..Len(history) :
          i < j => /\ histEx[i] <= histEx[j]
                   /\ histEx[i] = histEx[j] =>
                         /\ history[i].role = "user"
                         /\ history[j].role = "assistant"
    /\ \A i \in 1..Len(history) :
          history[i].role = "user" => history[i].content = StrV(Query(histEx[i]))
    /\ (pc = "idle" /\ outcome \in {"done", "returned"}) =>
          /\ Len(history) >= 2
          /\ history[Len(history) - 1] = UserTurn
          /\ history[Len(history)].role = "assistant"
          /\ histEx[Len(history) - 1] = exchanges
          /\ histEx[Len(history)] = exchanges

\* two completed exchanges, a non-streaming one and a streaming one
C5_Witness ==
    /\ Len(history) = 4
    /\ outcome = "done"
    /\ histEx = <<1, 1, 2, 2>>
    /\ history[2].content = StrV(DocHi)

\* C6 as stated: the assistant turn holds the raw buffer when the buffer
\* does not parse and the serialization of the parsed object when it does.
C6_ContentAsStated ==
    outcome = "done" =>
        /\ history = hist0 \o <<UserTurn, history[Len(history)]>>
        /\ history[Len(history)] =
              Turn("assistant",
                   IF JsonLoads(buffer).ok
                   THEN StrV(JsonDumps(JsonLoads(buffer).v))
                   ELSE StrV(buffer))

\* C6 amended: when the generator is resumed after the final snapshot,
\* exactly one assistant turn is appended; it holds the raw buffer when the
\* buffer parses and the serialization of the draft when it does not.
C6_ContentAsCoded ==
    outcome = "done" =>
        /\ history = hist0 \o <<UserTurn, history[Len(history)]>>
        /\ history[Len(history)] =
              Turn("assistant",
                   IF JsonLoads(buffer).ok THEN StrV(buffer)
                   ELSE StrV(JsonDumps(last)))
        /\ buffer = DocText =>
              history[Len(history)].content =
                 StrV("{\"title\": \"\", \"paragraphs\": [], \"bullets\": [], \"info_lain\": \"\"}")

\* a stream that stopped inside the answer, with a partly extracted draft
C6_Witness ==
    /\ outcome = "done"
    /\ ~JsonLoads(buffer).ok
    /\ "title" \in pop
    /\ history[Len(history)].content # StrV(buffer)

\* C7: an upstream status other than 200 gives exactly one event, the error
\* object; no line is read and the history is left as it was.
C7_ErrorEvent ==
    (pc = "errYield" \/ outcome = "error") =>
        /\ nout = 1
        /\ nlines = 0
        /\ history = hist0
        /\ DOMAIN last.o = FourKeys
        /\ last.o["title"] = StrV("Error")
        /\ last.o["bullets"] = ListV(<<>>)
        /\ last.o["info_lain"].s # ""
        /\ last.o["paragraphs"] \in
              {ListV(<<StrV("Error: 500"), StrV("oops")>>),
               ListV(<<StrV("Error: 429"), StrV("")>>)}

\* Scenario D on a history that already holds an exchange
C7_Witness ==
    /\ outcome = "error"
    /\ Len(history) = 2
    /\ last.o["paragraphs"] = ListV(<<StrV("Error: 500"), StrV("oops")>>)

\* C8: when the consumer drops a streaming query, the history is what it
\* was before the query started.
C8_CancelLeavesLedger == outcome = "cancelled" => history = hist0

\* C9 as stated: the user turn is in the history when the request is posted.
C9_UserTurnAtDispatch ==
    pc \in {"sPosted", "nPosted"} =>
        /\ Len(history) > 0
        /\ history[Len(history)] = UserTurn

\* C9 amended: while the request is in flight the history holds no turn of
\* the query; the user turn is appended once the response has arrived (in
\* the streaming variant after status 200 and before the first line is read,
\* in the non-streaming variant together with the assistant turn).
C9_UserTurnAfterResponse ==
    /\ pc \in {"sPosted", "nPosted"} => history = hist0
    /\ pc \in {"reading", "yield", "finalYield"} => history = hist0 \o <<UserTurn>>
    /\ outcome = "returned" =>
          /\ Len(history) = Len(hist0) + 2
          /\ history[Len(history) - 1] = UserTurn

\* the second request of a conversation is in flight
C9_Witness ==
    /\ pc \in {"sPosted", "nPosted"}
    /\ exchanges = 2
    /\ Len(history) = 2

\* C10: the non-streaming variant never raises.
C10_AskNeverRaises == outcome # "askRaised"

\* C11: every call of the non-streaming variant leaves the history extended
\* by exactly two turns, the user turn of the query and then the assistant
\* turn.
C11_AskTwoTurns ==
    (pc = "idle" /\ outcome \in {"returned", "askRaised"}) =>
        /\ Len(history) = Len(hist0) + 2
        /\ SubSeq(history, 1, Len(hist0)) = hist0
        /\ history[Len(history) - 1] = UserTurn
        /\ history[Len(history)].role = "assistant"

\* C12: one snapshot is emitted after every line that carries a content
\* delta, an empty one included, and one final snapshot after them: while
\* the stream is read the generator has emitted as many values as fragment
\* lines were read, and one more once it is finalized.
C12_SnapshotPerFragment ==
    /\ pc \in {"reading", "yield"} => nout = nfrag
    /\ Finalized => nout = nfrag + 1

\* the draft of the stream that sends the text as one fragment
Unsplit(text) == OnBuffer(text, InitDraft).acc

\* C13: the final snapshot and the assistant turn depend on the concatenated
\* fragment text alone: they are those of the stream that sends the same
\* text as a single fragment, whether the text parses or not.
C13_SplitIndependent ==
    /\ Finalized => last = FinalSnapshot(JsonLoads(sent), Unsplit(sent))
    /\ outcome = "done" =>
          history[Len(history)].content =
             FinalContent(JsonLoads(sent), sent, Unsplit(sent))

\* C14: reading a line that carries no content fragment (an empty line, a
\* line without the data prefix, a payload that is not a valid envelope)
\* emits nothing, leaves buffer, draft and history as they were, and the
\* stream goes on being read.
C14_SkippedLineNoEffect ==
    [][(nlines' = nlines + 1 /\ nfrag' = nfrag) =>
          /\ nout' = nout
          /\ last' = last
          /\ buffer' = buffer
          /\ acc' = acc
          /\ history' = history
          /\ pc' = "reading"
          /\ outcome' = outcome]_vars

\* the reading of a status-200 stream is over
StreamOver == pc = "finalYield" \/ outcome \in {"done", "raised"}

\* C15: every status-200 stream is finalized once, by the terminal line or
\* by the stream closing: the final snapshot is emitted from the buffer as
\* it stands, one assistant turn is appended, and nothing is read after the
\* terminal line.
C15_FinalizedAtStreamEnd ==
    /\ StreamOver =>
          /\ ended \in {"terminal", "closed"}
          /\ nout >= 1
          /\ last = FinalSnapshot(JsonLoads(buffer), acc)
    /\ outcome \in {"done", "raised"} =>
          history = hist0 \o <<UserTurn,
                               Turn("assistant",
                                    FinalContent(JsonLoads(buffer), buffer, acc))>>
    /\ ended = "terminal" => pc \notin {"reading", "yield"}

\* position of the value of the first "key" member in the text: after the key
\* marker, the colon and any whitespace around it; -1 without marker or colon
ValueStart(text, key) ==
    LET at == PyFind(text, "\"" \o key \o "\"", 0)
        colon == SkipWs(text, at + Len(key) + 2)
    IN IF at >= 0 /\ CharAt(text, colon) = ":" THEN SkipWs(text, colon + 1) ELSE 0 - 1

\* the text between the opening quote of that value and the next unescaped
\* quote, "" while the value is not there or not closed
QuotedText(text, key) ==
    LET start == ValueStart(text, key)
    IN IF start >= 0 /\ CharAt(text, start) = "\"" /\ ScanString(text, start + 1).ok
       THEN PySlice(text, start + 1, ScanString(text, start + 1).i - 1)
       ELSE ""

\* C16: in a snapshot that comes from partial extraction, title and
\* info_lain hold the text between the quotes of the key's value (empty
\* values, escaped quotes and whitespace after the colon included), and
\* their previous value while that value is not closed.
C16_QuotedTextExtracted ==
    (pc = "yield" /\ ~lastFull /\ IsObj(acc) /\ DOMAIN acc.o = FourKeys) =>
        \A key \in {"title", "info_lain"} : acc.o[key] = StrV(QuotedText(buffer, key))

\* the value of the first "key" member of the text is an array whose closing
\* bracket is in the text
ArrayClosed(text, key) ==
    /\ ValueStart(text, key) >= 0
    /\ CharAt(text, ValueStart(text, key)) = "["
    /\ ScanValue(text, ValueStart(text, key)).ok

\* C17: in a snapshot that comes from partial extraction, paragraphs and
\* bullets hold something only when the array that is the key's value is
\* closed in the buffer, and then they hold that array, a list of strings;
\* brackets inside a string or in a value that is not an array give nothing.
C17_ClosedArrayExtracted ==
    (pc = "yield" /\ ~lastFull /\ IsObj(acc) /\ DOMAIN acc.o = FourKeys) =>
        \A key \in {"paragraphs", "bullets"} :
            acc.o[key] # ListV(<<>>) =>
                /\ ArrayClosed(buffer, key)
                /\ acc.o[key] = ScanValue(buffer, ValueStart(buffer, key)).v
                /\ IsStrList(acc.o[key])

\* C18: in a step that reads a content fragment, a buffer that parses makes
\* the draft exactly the parsed value (nothing of the previous draft is
\* left), and a buffer that does not parse leaves the draft as partial
\* extraction of that step made it; the snapshot of the step is that draft.
C18_FullParseReplaces ==
    [][(nlines' = nlines + 1 /\ nfrag' = nfrag + 1) =>
          /\ JsonLoads(buffer').ok => acc' = JsonLoads(buffer').v
          /\ buffer' = DocOther => acc' = ObjV(<<"x">>, "x" :> NumV(1))
          /\ nout' > nout =>
                /\ last' = acc'
                /\ lastFull' = JsonLoads(buffer').ok
                /\ ~JsonLoads(buffer').ok => acc' = PartialExtract(buffer', acc).acc]_vars

\* the whole-buffer parse has replaced a draft in which partial extraction
\* of an earlier step had set the title, by an object with other keys only
C18_Witness ==
    /\ pc = "yield"
    /\ nout >= 2
    /\ lastFull
    /\ "title" \in pop
    /\ IsObj(last)
    /\ ~HasKey(last, "title")

\* the messages of the list that carry the text
Carrying(msgs, text) ==
    {i \in 1..Len(msgs) : msgs[i].content.t = "str" /\ PyIn(text, msgs[i].content.s)}

\* C19: the request in flight carries the system prompt, then every turn of
\* the history in order, then one user message with the query; after n
\* completed exchanges that makes 2n + 2 messages, one of them with the query.
C19_MessagesSent ==
    pc \in {"sPosted", "nPosted"} =>
        /\ Len(messages) = Len(history) + 2
        /\ messages[1] = [role |-> "system", content |-> StrV(system_prompt)]
        /\ \A i \in 1..Len(history) : messages[i + 1] = history[i]
        /\ messages[Len(messages)].role = "user"
        /\ Carrying(messages, query) = {Len(messages)}
        /\ Len(messages) = 2 * completed + 2

\* request t is executing chatbot_with_memory_json
Executing(t) == reqs[t].route = "ask" /\ reqs[t].pc \in {"posted", "appended"}

\* the turns each request appended to the list are adjacent in it
Uninterleaved(by) ==
    \A i \in 1..Len(by) : \A j \in i..Len(by) : \A k \in j..Len(by) :
        by[i] = by[k] => by[j] = by[i]

\* C20: two /ask requests never execute chatbot_with_memory_json on the same
\* conversation history at the same time, and the turns of two exchanges are
\* never interleaved in one history.
C20_OneInFlightPerSession ==
    /\ \A t \in 1..Len(reqs) : \A u \in 1..Len(reqs) :
           (t # u /\ Executing(t) /\ Executing(u))
               => reqs[t].conversation_history # reqs[u].conversation_history
    /\ \A l \in 1..Len(heapBy) : Uninterleaved(heapBy[l])

\* the list s is a prefix of the list t
IsPrefixOf(s, t) == Len(s) <= Len(t) /\ \A i \in 1..Len(s) : s[i] = t[i]

\* C21: while an email has a session, every earlier content of the session's
\* history is a prefix of its later content, also across a repeated /start.
C21_HistoryAppendOnly ==
    [][\A e \in Emails :
           (sessions[e] # 0 /\ sessions'[e] # 0)
               => IsPrefixOf(heap[sessions[e]], heap'[sessions'[e]])]_vars

\* C22: a step changes a history list only by appending to it, on behalf of
\* a request that holds that list; a session holding the list is the session
\* of that request, and every other request holding it is an /ask for the
\* same email, so a query never touches the history of another session and a
\* call made without a history argument shares its list with nobody.
C22_NoSharedHistory ==
    [][\A l \in 1..Len(heap) :
           heap'[l] # heap[l]
               => \E t \in 1..Len(reqs) :
                      /\ reqs'[t] # reqs[t]
                      /\ reqs[t].conversation_history = l
                      /\ IsPrefixOf(heap[l], heap'[l])
                      /\ \A e \in Emails :
                             sessions[e] = l
                                 => reqs[t].route = "ask" /\ reqs[t].email = e
                      /\ \A u \in 1..Len(reqs) :
                             (u # t /\ reqs[u].conversation_history = l)
                                 => /\ reqs[t].route = "ask"
                                    /\ reqs[u].route = "ask"
                                    /\ reqs[u].email = reqs[t].email]_vars

\* two sessions exist, a query for one has recorded its exchange and the
\* history of the other is still empty
C22_Witness ==
    \E a \in Emails : \E b \in Emails \ {a} :
        /\ sessions[a] # 0 /\ sessions[b] # 0
        /\ Len(heap[sessions[a]]) = 2
        /\ heap[sessions[b]] = <<>>
        /\ \E t \in 1..Len(reqs) :
               /\ reqs[t].route = "ask" /\ reqs[t].email = a
               /\ reqs[t].status = 200
               /\ reqs[t].conversation_history = sessions[a]

\* the step receives a request on the route
Arrives(route) ==
    /\ Len(reqs') = Len(reqs) + 1
    /\ reqs'[Len(reqs')].route = route

\* C23: an /ask passes validation, and gets the list its call of the bot
\* works on, only while its email has a session; an /ask with an empty query
\* or an email without a session is answered 400, never reaches the bot and
\* changes no session; a session is removed only by a /finish whose email
\* was sent, and a /finish that failed leaves every session as it was.
C23_SessionLifecycle ==
    [][/\ Arrives("ask") =>
              IF reqs'[Len(reqs')].query = "" \/ ~HasSession(reqs'[Len(reqs')].email)
              THEN /\ reqs'[Len(reqs')].pc = "sent"
                   /\ reqs'[Len(reqs')].status = 400
                   /\ reqs'[Len(reqs')].messages = <<>>
                   /\ reqs'[Len(reqs')].conversation_history = 0
                   /\ UNCHANGED <<sessions, heap>>
              ELSE reqs'[Len(reqs')].pc = "checked"
       /\ \A t \in 1..Len(reqs) :
              /\ reqs[t].pc = "sent" => reqs'[t] = reqs[t]
              /\ (reqs[t].pc = "checked" /\ reqs'[t].pc = "called")
                     => /\ HasSession(reqs[t].email)
                        /\ reqs'[t].conversation_history = sessions[reqs[t].email]
              /\ (reqs[t].route = "ask" /\ reqs'[t].pc = "posted")
                     => reqs[t].conversation_history # 0
       /\ \A e \in Emails :
              sessions[e] # 0 =>
                  \/ sessions'[e] = sessions[e]
                  \/ sessions'[e] # 0 /\ Arrives("start")
                  \/ /\ sessions'[e] = 0
                     /\ \E t \in 1..Len(reqs) :
                            /\ reqs[t].route = "finish" /\ reqs[t].email = e
                            /\ reqs[t].pc = "sending"
                            /\ reqs'[t].status = 200
       /\ \A t \in 1..Len(reqs) :
              (reqs[t].route = "finish" /\ reqs[t].pc = "sending" /\ reqs'[t].status = 500)
                  => sessions' = sessions
       /\ (Arrives("finish") /\ reqs'[Len(reqs')].status = 400) => sessions' = sessions]_vars

\* a session was started and finished with the email sent, and an /ask that
\* came for it afterwards was answered 400
C23_Witness ==
    \E e \in Emails : \E s \in 1..Len(reqs) : \E f \in 1..Len(reqs) : \E t \in 1..Len(reqs) :
        /\ s < f /\ f < t
        /\ reqs[s].route = "start" /\ reqs[s].email = e /\ reqs[s].status = 200
        /\ reqs[f].route = "finish" /\ reqs[f].email = e /\ reqs[f].status = 200
        /\ reqs[t].route = "ask" /\ reqs[t].email = e /\ reqs[t].query # ""
        /\ reqs[t].status = 400
        /\ sessions[e] = 0
====
